---- MODULE Spec2Model ----
(***************************************************************************)
(* The media-conversion pipeline of eyn_python/convert/core.py:            *)
(* plan_conversions (file discovery, destination naming), _build_args      *)
(* (probe, compatibility heuristic, ffmpeg command) and convert_all        *)
(* (_run_one per job, sequentially or on a ThreadPoolExecutor).            *)
(*                                                                         *)
(* A path is a record [dir, name]: dir is the parent directory as written, *)
(* name is the file name split at its dots (a.b.mp4 is <<"a","b","mp4">>,  *)
(* .DS_Store is <<"","DS_Store">>).  The filesystem fs maps a resolved     *)
(* path to a file [data, mtime]; a path outside DOMAIN fs does not exist.  *)
(***************************************************************************)
EXTENDS Integers, Sequences, FiniteSets, TLC

VARIABLES
    bins,       \* executables resolvable on PATH (shutil.which)
    root,       \* the path given to plan_conversions
    listing,    \* what glob/rglob yields under root, in the order it yields it
    settings,   \* ConvertSettings
    opts,       \* keyword arguments of convert_all
    fs,         \* resolved path -> file
    dirs,       \* resolved directories that exist
    now,        \* the clock that stamps written files
    jobs,       \* the list plan_conversions returned
    mpc,        \* position of the caller: cli.convert / convert_all
    pc,         \* per job: position inside _run_one
    state,      \* per job: PENDING, RUNNING, SKIPPED, DRY_RUN_LOGGED, COMMITTED, FAILED
    result,     \* per job: what its _run_one call returned or raised
    collected,  \* per job: the caller has read its result
    successes,  \* the counter of convert_all
    summary,    \* the "Completed N/M" lines logged
    raised,     \* the exception that left plan_conversions / convert_all
    cmd,        \* per job: the command _build_args returned and the streams it probed
    rc,         \* per job: the encoder's return code
    pre,        \* per job: the destination as it was when the job started
    wrote,      \* per job: what the job's encoder left at the temp path
    calls,      \* per job: external process invocations of the current run
    past,       \* per finished convert_all call on these jobs: its jobs' states
    arg,        \* the arguments of a helper called on its own
    ret         \* what that call returned: <<>> before it returns, then <<value>>

vars == <<bins, root, listing, settings, opts, fs, dirs, now, jobs, mpc, pc,
          state, result, collected, successes, summary, raised, cmd, rc, pre,
          wrote, calls, past, arg, ret>>

None == "<None>"

Range(s) == {s[i] : i \in DOMAIN s}

(***************************************************************************)
(* Strings: the operations the code applies to them, on the strings of     *)
(* the model.                                                              *)
(***************************************************************************)
\* A str.lower that leaves its argument as it is.
unchanged(s) == s

lower(s) ==
    CASE s = "MP4" -> "mp4"
      [] s = ".MP4" -> ".mp4"
      [] s = "MKV" -> "mkv"
      [] s = "MOV" -> "mov"
      [] s = "H264" -> "h264"
      [] s = "AAC" -> "aac"
      [] s = "Thumbs" -> "thumbs"
      [] s = "DB" -> "db"
      [] OTHER -> s

lstrip_dot(s) ==
    CASE s = ".mp4" -> "mp4"
      [] s = ".mkv" -> "mkv"
      [] OTHER -> s

str(n) ==
    CASE n = 23 -> "23"
      [] n = 18 -> "18"
      [] OTHER -> "0"

startswith_pcm(a) == a \in {"pcm_s16le", "pcm_s24le", "pcm_u8"}

(***************************************************************************)
(* pathlib                                                                 *)
(***************************************************************************)
P(d, n) == [dir |-> d, name |-> n]

\* PurePath.suffix: the text from the last dot on, unless that dot is the
\* first or the last character of the name; <<>> is "", <<"mp4">> is ".mp4".
suffix(p) ==
    LET n == Len(p.name) IN
    IF /\ n >= 2
       /\ (n >= 3 \/ p.name[1] # "")
       /\ p.name[n] # ""
    THEN <<p.name[n]>>
    ELSE <<>>

\* PurePath.stem: the name without its suffix.
stem(p) ==
    IF suffix(p) = <<>> THEN p.name ELSE SubSeq(p.name, 1, Len(p.name) - 1)

\* PurePath.with_suffix(suf): the suffix, if any, is replaced, else suf is
\* appended; suf is given as its dot-separated parts.
with_suffix(p, suf) == P(p.dir, stem(p) \o suf)

\* parent / name
joinpath(d, n) == P(d, n)

\* Path.resolve(): absolute, no symlinks in the model's tree.
resolve_dir(d) ==
    CASE d = "d" -> "/w/d"
      [] d = "d/s" -> "/w/d/s"
      [] d = "out" -> "/w/out"
      [] d = "." -> "/w"
      [] OTHER -> d

resolve(p) == P(resolve_dir(p.dir), p.name)

\* The directory a directory path names, as the parent of its children.
as_dir(p) ==
    CASE p = P(".", <<"d">>) -> "d"
      [] p = P("d", <<"s">>) -> "d/s"
      [] p = P(".", <<"out">>) -> "out"
      [] p = P("/w", <<"out">>) -> "/w/out"
      [] p = P("/w", <<"d">>) -> "/w/d"
      [] OTHER -> None

\* Whether directory d lies below directory r (at any depth).
is_below(d, r) ==
    \/ d = r
    \/ (r = "d" /\ d = "d/s")

exists(f, p) == resolve(p) \in DOMAIN f
is_file(f, p) == exists(f, p)

(***************************************************************************)
(* Capability check and file discovery                                     *)
(***************************************************************************)
which(b, binary) == IF binary \in b THEN binary ELSE None

\* A capability check that never raises.
_require_nothing(b) == FALSE

\* True when _require_ffmpeg raises RuntimeError.
_require_ffmpeg(b) == which(b, "ffmpeg") = None \/ which(b, "ffprobe") = None

\* ls is what root.rglob("*") yields; root.glob("*") yields the direct
\* children among them.
_iter_files(f, ls, r, recursive) ==
    IF is_file(f, r)
    THEN <<r>>
    ELSE LET it(p) == IF recursive THEN is_below(p.dir, as_dir(r))
                                   ELSE p.dir = as_dir(r)
             yielded(p) == it(p) /\ is_file(f, p)
         IN  SelectSeq(ls, yielded)

(***************************************************************************)
(* Destination naming and planning                                         *)
(***************************************************************************)
_dst_path(src, base_out, new_ext) ==
    LET parent == IF base_out # None THEN base_out ELSE src.dir
        ext == <<lstrip_dot(new_ext)>>
    IN  with_suffix(joinpath(parent, stem(src)), ext)

ConvertJob(src, dst, s) == [src |-> src, dst |-> dst, settings |-> s]

\* A junk filter that knows hidden files only.
is_hidden(p) == p.name[1] = ""

\* The test of plan_conversions for hidden and system junk files.
is_junk(p) ==
    \/ p.name[1] = ""
    \/ [i \in DOMAIN p.name |-> lower(p.name[i])]
           \in {<<"thumbs", "db">>, <<"desktop", "ini">>}

plan_job(f, s) ==
    LET dst == _dst_path(f, s.output_dir, s.to)
    IN  IF resolve(f) = resolve(dst)
        THEN ConvertJob(f, with_suffix(dst, <<"conv">> \o suffix(dst)), s)
        ELSE ConvertJob(f, dst, s)

\* [exc, jobs, called]: the exception plan_conversions raises (None: it
\* returns), the list it returns, and the helpers it called, in call order
\* (_dst_path once per file that is not junk).
plan_conversions(b, f, ls, src, s) ==
    IF _require_ffmpeg(b)
    THEN [exc |-> "RuntimeError", jobs |-> <<>>,
          called |-> <<"_require_ffmpeg">>]
    ELSE LET files == _iter_files(f, ls, src, s.recursive)
             kept(p) == ~is_junk(p)
             todo == SelectSeq(files, kept)
         IN  IF files = <<>>
             THEN [exc |-> "FileNotFoundError", jobs |-> <<>>,
                   called |-> <<"_require_ffmpeg", "_iter_files">>]
             ELSE [exc |-> None,
                   jobs |-> [i \in 1..Len(todo) |-> plan_job(todo[i], s)],
                   called |-> <<"_require_ffmpeg", "_iter_files">>
                                \o [i \in 1..Len(todo) |-> "_dst_path"]]

(***************************************************************************)
(* Probing and the compatibility heuristic                                 *)
(***************************************************************************)
RECURSIVE _first_codec(_, _)
_first_codec(streams, kind) ==
    IF streams = <<>> THEN None
    ELSE LET s == Head(streams) IN
         IF s.codec_type = kind /\ s.codec_name # None /\ s.codec_name # ""
         THEN lower(s.codec_name)
         ELSE _first_codec(Tail(streams), kind)

_container_allows_codecs(container, vcodec, acodec) ==
    LET c == lower(container)
        v == lower(IF vcodec = None THEN "" ELSE vcodec)
        a == lower(IF acodec = None THEN "" ELSE acodec)
    IN  IF c = "mp4" \/ c = ".mp4"
        THEN v \in {"h264", "hevc", "h265", "av1"} /\ a \in {"aac", "mp3"}
        ELSE IF c \in {"mov", ".mov"}
        THEN /\ v \in {"h264", "hevc", "h265", "prores"}
             /\ a \in {"aac", "pcm_s16le", "pcm_s24le"}
        ELSE IF c \in {"webm", ".webm"}
        THEN v \in {"vp8", "vp9", "av1"} /\ a \in {"vorbis", "opus"}
        ELSE IF c \in {"mkv", ".mkv"}
        THEN TRUE
        ELSE IF c \in {"m4a", ".m4a"}
        THEN v = None /\ a \in {"aac", "alac"}
        ELSE IF c \in {"mp3", ".mp3"}
        THEN v = None /\ a = "mp3"
        ELSE IF c \in {"ogg", ".ogg"}
        THEN v = None /\ a \in {"vorbis", "opus"}
        ELSE IF c \in {"flac", ".flac"}
        THEN v = None /\ a = "flac"
        ELSE IF c \in {"wav", ".wav"}
        THEN v = None /\ startswith_pcm(a)
        ELSE FALSE

(***************************************************************************)
(* The ffmpeg command: a list of arguments, each a literal or a path.      *)
(***************************************************************************)
NoPath == P("", <<>>)
Lit(s) == [lit |-> s, path |-> NoPath]
PathArg(p) == [lit |-> "", path |-> p]
Lits(ss) == [i \in DOMAIN ss |-> Lit(ss[i])]

acodec_by_ext(e) ==
    CASE e = "mp3" -> "libmp3lame"
      [] e = "aac" -> "aac"
      [] e = "flac" -> "flac"
      [] e = "m4a" -> "aac"
      [] e = "ogg" -> "libvorbis"
      [] e = "wav" -> "pcm_s16le"

\* to_ext of _build_args: job.dst.suffix.lstrip(".").lower()
to_ext_of(dst) == IF suffix(dst) = <<>> THEN "" ELSE lower(suffix(dst)[1])

\* streams is what _ffprobe_streams(job.src) returns; it is read only when
\* smart_copy holds.
_build_args(job, smart_copy, streams) ==
    LET video == job.settings.video
        args == Lits(<<"ffmpeg", "-y", "-hide_banner", "-loglevel", "warning", "-i">>)
                    \o <<PathArg(job.src)>>
        to_ext == to_ext_of(job.dst)
        v_in == _first_codec(streams, "video")
        a_in == _first_codec(streams, "audio")
        webm == to_ext = "webm"
        vcodec == IF webm /\ video.video_codec \in {"libx264", "h264"}
                  THEN "libvpx-vp9" ELSE video.video_codec
        acodec == IF webm /\ video.audio_codec \in {"aac"}
                  THEN "libopus" ELSE video.audio_codec
        abitrate == video.audio_bitrate
        transcode ==
            Lits(<<"-map", "0">>)
            \o Lits(<<"-c:v", vcodec, "-preset", video.preset, "-crf", str(video.crf)>>)
            \o (IF video.tune # None /\ video.tune # ""
                THEN Lits(<<"-tune", video.tune>>) ELSE <<>>)
            \o (IF acodec # None /\ acodec # ""
                THEN Lits(<<"-c:a", acodec>>) ELSE <<>>)
            \o (IF /\ abitrate # None /\ abitrate # ""
                   /\ acodec \notin {"flac", "pcm_s16le", "pcm_s24le"}
                THEN Lits(<<"-b:a", abitrate>>) ELSE <<>>)
            \o (IF to_ext \in {"mp4", "mov"}
                THEN Lits(<<"-movflags", "+faststart">>) ELSE <<>>)
        audio ==
            Lits(<<"-vn", "-map", "0:a:0?">>)
            \o Lits(<<"-c:a", acodec_by_ext(to_ext)>>)
            \o (IF to_ext \notin {"flac", "wav"} /\ abitrate # None /\ abitrate # ""
                THEN Lits(<<"-b:a", abitrate>>) ELSE <<>>)
    IN  IF smart_copy /\ _container_allows_codecs(to_ext, v_in, a_in)
        THEN args \o Lits(<<"-map", "0", "-c", "copy", "-movflags", "+faststart">>)
                  \o <<PathArg(job.dst)>>
        ELSE IF to_ext \in {"mp4", "mkv", "mov", "webm"}
        THEN args \o transcode \o <<PathArg(job.dst)>>
        ELSE IF to_ext \in {"mp3", "aac", "flac", "m4a", "wav", "ogg"}
        THEN args \o audio \o <<PathArg(job.dst)>>
        ELSE args \o Lits(<<"-map", "0", "-c", "copy">>) \o <<PathArg(job.dst)>>

(***************************************************************************)
(* The filesystem                                                          *)
(***************************************************************************)
\* data.kind: "media" (an input file), "old" (an earlier output), "empty"
\* (zero length), "partial" (what a failed encoder left), "out" (a complete
\* encoder output); data.of: the job whose encoder wrote it (0: none).
File(kind, of, mtime, streams) ==
    [data |-> [kind |-> kind, of |-> of], mtime |-> mtime, streams |-> streams]

Absent == File("absent", 0, 0, <<>>)

\* Path.stat(), Absent standing for FileNotFoundError.
stat(f, p) == IF exists(f, p) THEN f[resolve(p)] ELSE Absent

st_size(file) == IF file.data.kind \in {"absent", "empty"} THEN 0 ELSE 1

\* Path.unlink() that succeeds.
unlink(f, p) == [k \in DOMAIN f \ {resolve(p)} |-> f[k]]

write(f, p, file) == (resolve(p) :> file) @@ f

\* Path.replace(target) that succeeds: target now holds the file, the source
\* path is gone.
replace(f, p, target) == write(unlink(f, p), target, f[resolve(p)])

ensure_dir(ds, d) == ds \cup {resolve_dir(d)}

\* An up-to-date check that looks at the modification times only.
_is_newer(f, src, dst) ==
    exists(f, dst) /\ exists(f, src) /\ stat(f, dst).mtime >= stat(f, src).mtime

_is_up_to_date(f, src, dst) ==
    IF ~exists(f, dst)
    THEN FALSE
    ELSE /\ st_size(stat(f, dst)) > 0
         /\ exists(f, src)
         /\ stat(f, dst).mtime >= stat(f, src).mtime

\* _ffprobe_streams: [] when ffprobe fails (no such file, no media in it).
_ffprobe_streams(f, p) ==
    IF exists(f, p) /\ stat(f, p).data.kind # "empty"
    THEN stat(f, p).streams
    ELSE <<>>

\* tmp_out of _run_one
tmp_out(job) == with_suffix(job.dst, suffix(job.dst) \o <<"part">>)

(***************************************************************************)
(* convert_all                                                             *)
(***************************************************************************)
Jobs == DOMAIN jobs

\* An optional integer (int | None): <<>> is None, <<n>> is n.
NoInt == <<>>
Given(n) == <<n>>

\* x or d, for an optional integer x: None and 0 are falsy.
or_else(x, d) == IF x # NoInt /\ x[1] # 0 THEN x[1] ELSE d

\* A worker count that takes the machine's processor count, whatever
\* `workers` says.
max_workers_cpu(o) == or_else(o.cpu_count, 2)

\* max_workers of convert_all:
\* workers or max(1, (os.cpu_count() or 2) // 2)
max_workers(o) ==
    LET half == or_else(o.cpu_count, 2) \div 2
    IN  or_else(o.workers, IF half >= 1 THEN half ELSE 1)

\* An except clause that lets the exception out of _run_one.
on_exception_reraised(e) == "exc"

\* What the except clause of _run_one makes of an exception: it is logged and
\* the job returns (job, False).
on_exception(e) == "fail"

\* Jobs whose encoder is already running.
Running(js) == [j \in DOMAIN js |-> "encoding"]

Fresh(js) == [j \in DOMAIN js |-> "pending"]

NoCommand == [args |-> <<>>, probed |-> <<>>]

\* cli.convert: jobs = plan_conversions(src, settings)
Plan ==
    /\ mpc = "plan"
    /\ LET r == plan_conversions(bins, fs, listing, root, settings) IN
       /\ IF r.exc # None
          THEN /\ raised' = r.exc
               /\ mpc' = "raised"
               /\ UNCHANGED <<jobs, pc, state, result, collected, cmd, rc, pre,
                              wrote, calls>>
          ELSE /\ jobs' = r.jobs
               /\ mpc' = "call"
               /\ pc' = Fresh(r.jobs)
               /\ state' = [j \in DOMAIN r.jobs |-> "PENDING"]
               /\ result' = [j \in DOMAIN r.jobs |-> "none"]
               /\ collected' = [j \in DOMAIN r.jobs |-> FALSE]
               /\ cmd' = [j \in DOMAIN r.jobs |-> NoCommand]
               /\ rc' = [j \in DOMAIN r.jobs |-> 0]
               /\ pre' = [j \in DOMAIN r.jobs |-> Absent]
               /\ wrote' = [j \in DOMAIN r.jobs |-> Absent]
               /\ calls' = [j \in DOMAIN r.jobs |-> [enc |-> 0, probe |-> 0]]
               /\ UNCHANGED raised
       /\ arg' = [fn |-> "plan_conversions"]
       /\ ret' = <<r.called>>
    /\ UNCHANGED <<bins, root, listing, settings, opts, fs, dirs, now,
                   successes, summary, past>>

\* A loop that creates no directory.
ensure_no_dirs(ds, js) == ds

\* convert_all, lines 326-327: for j in jobs: ensure_dir(j.dst.parent)
ensure_dirs(ds, js) == ds \cup {resolve_dir(js[j].dst.dir) : j \in DOMAIN js}

\* convert_all, lines 321-337: nothing to do, or create the output
\* directories and choose the sequential or the pooled path;
\* ThreadPoolExecutor raises ValueError unless max_workers is positive.
ConvertAllBegin ==
    /\ mpc = "call"
    /\ IF jobs = <<>>
       THEN /\ mpc' = "done"
            /\ UNCHANGED dirs
       ELSE /\ dirs' = ensure_dirs(dirs, jobs)
            /\ mpc' = IF max_workers(opts) = 1 THEN "seq"
                      ELSE IF max_workers(opts) <= 0 THEN "raised"
                      ELSE "pool"
    /\ raised' = IF jobs # <<>> /\ max_workers(opts) <= 0
                 THEN "ValueError" ELSE raised
    /\ successes' = 0
    /\ UNCHANGED <<bins, root, listing, settings, opts, fs, now, jobs, pc,
                   state, result, collected, summary, cmd, rc, pre,
                   wrote, calls, past>>
    /\ UNCHANGED <<arg, ret>>

\* The jobs a worker (or the caller, on the sequential path) is inside.
Active == {j \in Jobs : pc[j] \notin {"pending", "returned"}}

\* A scheduler that starts any job not yet started, whatever the others do.
MayStartAny(j) == pc[j] = "pending"

\* A scheduler that hands out a job whether or not it was handed out before.
MayRestart(j) == pc[j] # "encoding"

\* Job j is the next to start: on the sequential path when every earlier job
\* has returned and been counted, on the pool when it heads the work queue
\* and a worker is idle.
MayStart(j) ==
    /\ pc[j] = "pending"
    /\ \A i \in Jobs : i < j => pc[i] # "pending"
    /\ \/ mpc = "seq" /\ \A i \in Jobs : i < j => collected[i]
       \/ mpc = "pool" /\ Cardinality(Active) < max_workers(opts)

Returns(j, st, res) ==
    /\ pc' = [pc EXCEPT ![j] = "returned"]
    /\ state' = [state EXCEPT ![j] = st]
    /\ result' = [result EXCEPT ![j] = res]

\* _run_one, lines 257-261: the job is up to date and skipped.
Skip(j) ==
    /\ MayStart(j)
    /\ opts.skip_if_up_to_date /\ _is_up_to_date(fs, jobs[j].src, jobs[j].dst)
    /\ dirs' = ensure_dir(dirs, jobs[j].dst.dir)
    /\ pre' = [pre EXCEPT ![j] = stat(fs, jobs[j].dst)]
    /\ Returns(j, "SKIPPED", "ok")
    /\ UNCHANGED <<bins, root, listing, settings, opts, fs, now, jobs, mpc,
                   collected, successes, summary, raised, cmd, rc, wrote,
                   calls, past>>
    /\ UNCHANGED <<arg, ret>>

\* _run_one, lines 257-277: not skipped; a file at the temp path is removed
\* (best effort), the command is built against the temp path, and either
\* logged (dry run) or started.
Prepare(j) ==
    /\ MayStart(j)
    /\ ~(opts.skip_if_up_to_date /\ _is_up_to_date(fs, jobs[j].src, jobs[j].dst))
    /\ dirs' = ensure_dir(dirs, jobs[j].dst.dir)
    /\ pre' = [pre EXCEPT ![j] = stat(fs, jobs[j].dst)]
    /\ \E unlinked \in BOOLEAN :
          /\ unlinked => exists(fs, tmp_out(jobs[j]))
          /\ fs' = IF unlinked THEN unlink(fs, tmp_out(jobs[j])) ELSE fs
    /\ LET streams == IF opts.smart_copy
                       THEN _ffprobe_streams(fs', jobs[j].src) ELSE <<>>
       IN  cmd' = [cmd EXCEPT ![j] =
                     [args |-> _build_args(ConvertJob(jobs[j].src, tmp_out(jobs[j]),
                                                      jobs[j].settings),
                                           opts.smart_copy, streams),
                      probed |-> streams]]
    /\ calls' = [calls EXCEPT ![j] =
                   [enc |-> IF opts.dry_run THEN @.enc ELSE @.enc + 1,
                    probe |-> IF opts.smart_copy THEN @.probe + 1 ELSE @.probe]]
    /\ IF opts.dry_run
       THEN Returns(j, "DRY_RUN_LOGGED", "ok")
       ELSE /\ pc' = [pc EXCEPT ![j] = "encoding"]
            /\ state' = [state EXCEPT ![j] = "RUNNING"]
            /\ UNCHANGED result
    /\ UNCHANGED <<bins, root, listing, settings, opts, now, jobs, mpc,
                   collected, successes, summary, raised, rc, wrote, past>>
    /\ UNCHANGED <<arg, ret>>

\* What ffprobe would report of the file a command writes: a stream copy
\* keeps the input's streams; what an encoder makes of them is not tracked.
StreamChoices ==
    { <<>>,
      <<[codec_type |-> "video", codec_name |-> "h264"],
        [codec_type |-> "audio", codec_name |-> "aac"]>> }

encoder_streams(args, in) ==
    IF Lit("copy") \in Range(args) THEN {in} ELSE StreamChoices

\* _run_one, lines 277-278: the encoder exits.  It exits 0 only if it could
\* read its input, and then leaves its complete output at the temp path (-y
\* overwrites); when it fails it leaves a partial file or none.
EncoderExit(j) ==
    /\ mpc \in {"seq", "pool"}
    /\ pc[j] = "encoding"
    /\ \E code \in {0, 1}, left \in {"out", "partial", "nothing"} :
          /\ code = 0 => exists(fs, jobs[j].src) /\ left = "out"
          /\ code # 0 => left # "out"
          /\ rc' = [rc EXCEPT ![j] = code]
          /\ now' = now + 1
          /\ IF left = "nothing"
             THEN UNCHANGED <<fs, wrote>>
             ELSE \E st \in encoder_streams(cmd[j].args, _ffprobe_streams(fs, jobs[j].src)) :
                     /\ fs' = write(fs, tmp_out(jobs[j]), File(left, j, now', st))
                     /\ wrote' = [wrote EXCEPT ![j] = File(left, j, now', st)]
    /\ pc' = [pc EXCEPT ![j] = "exited"]
    /\ UNCHANGED <<bins, root, listing, settings, opts, dirs, jobs, mpc, state,
                   result, collected, successes, summary, raised, cmd, pre,
                   calls, past>>
    /\ UNCHANGED <<arg, ret>>

\* _run_one, lines 279-285: non-zero exit; the temp file is removed (best
\* effort) and the job has failed.
Cleanup(j) ==
    /\ mpc \in {"seq", "pool"}
    /\ pc[j] = "exited" /\ rc[j] # 0
    /\ \E unlinked \in BOOLEAN :
          /\ unlinked => exists(fs, tmp_out(jobs[j]))
          /\ fs' = IF unlinked THEN unlink(fs, tmp_out(jobs[j])) ELSE fs
    /\ Returns(j, "FAILED", "fail")
    /\ UNCHANGED <<bins, root, listing, settings, opts, dirs, now, jobs, mpc,
                   collected, successes, summary, raised, cmd, rc, pre, wrote,
                   calls, past>>
    /\ UNCHANGED <<arg, ret>>

\* _run_one, lines 288-290: zero exit; an existing destination is removed
\* (best effort).
CommitUnlink(j) ==
    /\ mpc \in {"seq", "pool"}
    /\ pc[j] = "exited" /\ rc[j] = 0
    /\ \E unlinked \in BOOLEAN :
          /\ unlinked => exists(fs, jobs[j].dst)
          /\ fs' = IF unlinked THEN unlink(fs, jobs[j].dst) ELSE fs
    /\ pc' = [pc EXCEPT ![j] = "replace"]
    /\ UNCHANGED <<bins, root, listing, settings, opts, dirs, now, jobs, mpc,
                   state, result, collected, successes, summary, raised, cmd,
                   rc, pre, wrote, calls, past>>
    /\ UNCHANGED <<arg, ret>>

\* _run_one, lines 291-296: the temp file is renamed into place and the job
\* is committed; if the rename raises (no temp file, or the OS refuses), the
\* except clause makes the job a failure.
CommitReplace(j) ==
    /\ mpc \in {"seq", "pool"}
    /\ pc[j] = "replace"
    /\ \E renamed \in BOOLEAN :
          /\ renamed => exists(fs, tmp_out(jobs[j]))
          /\ IF renamed
             THEN /\ fs' = replace(fs, tmp_out(jobs[j]), jobs[j].dst)
                  /\ Returns(j, "COMMITTED", "ok")
             ELSE /\ fs' = fs
                  /\ Returns(j, "FAILED",
                             on_exception(IF exists(fs, tmp_out(jobs[j]))
                                          THEN "OSError" ELSE "FileNotFoundError"))
    /\ UNCHANGED <<bins, root, listing, settings, opts, dirs, now, jobs, mpc,
                   collected, successes, summary, raised, cmd, rc, pre, wrote,
                   calls, past>>
    /\ UNCHANGED <<arg, ret>>

\* A count that takes every returned job for a success.
int_of_any(res) == 1

\* int(ok) of `successes += int(ok)`.
int(res) == IF res = "ok" THEN 1 ELSE 0

\* convert_all, lines 334-335 and 342-344: the caller reads a finished job's
\* result; an exception stored in it is raised again.
Collect(j) ==
    /\ mpc \in {"seq", "pool"}
    /\ pc[j] = "returned" /\ ~collected[j]
    /\ IF result[j] = "exc"
       THEN /\ raised' = "Exception"
            /\ mpc' = "raised"
            /\ UNCHANGED <<collected, successes>>
       ELSE /\ collected' = [collected EXCEPT ![j] = TRUE]
            /\ successes' = successes + int(result[j])
            /\ UNCHANGED <<raised, mpc>>
    /\ UNCHANGED <<bins, root, listing, settings, opts, fs, dirs, now, jobs,
                   pc, state, result, summary, cmd, rc, pre, wrote, calls, past>>
    /\ UNCHANGED <<arg, ret>>

\* convert_all, line 346: every job is counted; the summary is logged.
Summary ==
    /\ mpc \in {"seq", "pool"}
    /\ \A j \in Jobs : collected[j]
    /\ summary' = Append(summary, [n |-> successes, m |-> Len(jobs)])
    /\ past' = Append(past, state)
    /\ mpc' = "done"
    /\ UNCHANGED <<bins, root, listing, settings, opts, fs, dirs, now, jobs,
                   pc, state, result, collected, successes, raised, cmd, rc,
                   pre, wrote, calls>>
    /\ UNCHANGED <<arg, ret>>

\* The caller runs convert_all again on the same jobs with the same options.
Rerun ==
    /\ mpc = "done"
    /\ Len(past) = 1
    /\ mpc' = "call"
    /\ pc' = Fresh(jobs)
    /\ state' = [j \in Jobs |-> "PENDING"]
    /\ result' = [j \in Jobs |-> "none"]
    /\ collected' = [j \in Jobs |-> FALSE]
    /\ cmd' = [j \in Jobs |-> NoCommand]
    /\ rc' = [j \in Jobs |-> 0]
    /\ pre' = [j \in Jobs |-> Absent]
    /\ wrote' = [j \in Jobs |-> Absent]
    /\ calls' = [j \in Jobs |-> [enc |-> 0, probe |-> 0]]
    /\ UNCHANGED <<bins, root, listing, settings, opts, fs, dirs, now, jobs,
                   successes, summary, raised, past>>
    /\ UNCHANGED <<arg, ret>>

(***************************************************************************)
(* Initial states: a directory d of media files, the settings and options  *)
(* of one `convert` command.                                               *)
(***************************************************************************)
MaxFiles == 2

H264AAC ==
    <<[codec_type |-> "video", codec_name |-> "h264"],
      [codec_type |-> "audio", codec_name |-> "aac"]>>

VP9OPUS ==
    <<[codec_type |-> "video", codec_name |-> "vp9"],
      [codec_type |-> "audio", codec_name |-> "opus"]>>

Entry(p, file) == [path |-> p, file |-> file]

\* What an entry that is a directory holds in place of a file.
Directory == File("dir", 0, 0, <<>>)

\* The regular files among entries es.
RegularFiles(es) == {e \in es : e.file # Directory}

\* Files that may lie in d when a conversion is run: a.mov and a.avi share a
\* stem, a.mp4 is older than both.
DirFiles ==
    { Entry(P("d", <<"a", "mov">>), File("media", 0, 1, H264AAC)),
      Entry(P("d", <<"a", "avi">>), File("media", 0, 1, VP9OPUS)),
      Entry(P("d", <<"a", "mp4">>), File("media", 0, 0, H264AAC)) }

\* Files that may lie in the output directory before the command runs: an
\* earlier output, older or newer than the sources or newer but empty, or a
\* stale temp file.
OutFiles ==
    { Entry(P("out", <<"a", "mp4">>), File("old", 0, 0, H264AAC)),
      Entry(P("out", <<"a", "mp4">>), File("old", 0, 2, H264AAC)),
      Entry(P("out", <<"a", "mp4">>), File("empty", 0, 2, <<>>)),
      Entry(P("out", <<"a", "mp4", "part">>), File("partial", 0, 0, <<>>)) }

\* Entries that may lie under d when a conversion is planned: files, and the
\* subdirectory s, which rglob and glob yield like any other entry.
PlanFiles ==
    DirFiles \cup
    { Entry(P("d", <<"a", "b", "mp4">>), File("media", 0, 1, H264AAC)),
      Entry(P("d", <<"a", "mp4", "part">>), File("partial", 0, 1, <<>>)),
      Entry(P("d", <<"", "DS_Store">>), File("old", 0, 1, <<>>)),
      Entry(P("d", <<"Thumbs", "db">>), File("old", 0, 1, <<>>)),
      Entry(P("d/s", <<"a", "mov">>), File("media", 0, 1, H264AAC)),
      Entry(P("d", <<"s">>), Directory) }

DefaultVideo ==
    [crf |-> 23, preset |-> "medium", tune |-> None, video_codec |-> "libx264",
     audio_codec |-> "aac", audio_bitrate |-> "192k"]

ConvertSettings(to, recursive, output_dir, video) ==
    [to |-> to, recursive |-> recursive, output_dir |-> output_dir, video |-> video]

Options(workers, cpu_count, smart_copy, dry_run, skip) ==
    [workers |-> workers, cpu_count |-> cpu_count, smart_copy |-> smart_copy,
     dry_run |-> dry_run, skip_if_up_to_date |-> skip]

DistinctPaths(es) == \A e1, e2 \in es : e1.path = e2.path => e1 = e2

Orders(es) ==
    {l \in [1..Cardinality(es) -> es] : \A i, k \in DOMAIN l : l[i] = l[k] => i = k}

\* No helper is called on its own.
NoCall == [fn |-> "none"]

InitOf(Roots, Bins, Files, Outs, SettingsSet, OptionsSet, max_files) ==
    /\ bins \in Bins
    /\ root \in Roots
    /\ settings \in SettingsSet
    /\ opts \in OptionsSet
    /\ \E ins \in SUBSET Files, outs \in SUBSET Outs :
          /\ Cardinality(ins) <= max_files /\ Cardinality(outs) <= 1
          /\ DistinctPaths(ins)
          /\ \A e \in ins : resolve_dir(e.path.dir) # "/w/d" =>
                 \E d \in ins : d.file = Directory
                                /\ resolve_dir(as_dir(d.path)) = resolve_dir(e.path.dir)
          /\ outs # {} => settings.output_dir # None
          /\ \E l \in Orders(ins) : listing = [i \in DOMAIN l |-> l[i].path]
          /\ fs = [k \in {resolve(e.path) : e \in RegularFiles(ins \cup outs)} |->
                     (CHOOSE e \in ins \cup outs : resolve(e.path) = k).file]
          /\ dirs = {"/w", "/w/d"}
                     \cup {resolve_dir(e.path.dir) : e \in outs}
                     \cup {resolve_dir(as_dir(e.path)) : e \in ins \ RegularFiles(ins)}
    /\ now = 2
    /\ jobs = <<>>
    /\ mpc = "plan"
    /\ pc = <<>> /\ state = <<>> /\ result = <<>> /\ collected = <<>>
    /\ cmd = <<>> /\ rc = <<>> /\ pre = <<>> /\ wrote = <<>> /\ calls = <<>>
    /\ successes = 0
    /\ summary = <<>>
    /\ raised = None
    /\ past = <<>>
    /\ arg = NoCall
    /\ ret = <<>>

\* The options of a run: every combination on the sequential path; on the
\* pool the defaults (smart copy, skip) or neither, each with and without
\* dry_run.
RunOptions ==
    {Options(Given(1), Given(4), sc, dr, sk) :
        sc \in BOOLEAN, dr \in BOOLEAN, sk \in BOOLEAN}
    \cup {Options(NoInt, Given(4), b, dr, b) : b \in BOOLEAN, dr \in BOOLEAN}

Init ==
    InitOf({P(".", <<"d">>)},
           {{"ffmpeg", "ffprobe"}},
           DirFiles, OutFiles,
           {ConvertSettings("mp4", FALSE, od, DefaultVideo) : od \in {None, "out"}},
           RunOptions,
           MaxFiles)

Next ==
    \/ Plan
    \/ ConvertAllBegin
    \/ \E j \in Jobs : Skip(j)
    \/ \E j \in Jobs : Prepare(j)
    \/ \E j \in Jobs : EncoderExit(j)
    \/ \E j \in Jobs : Cleanup(j)
    \/ \E j \in Jobs : CommitUnlink(j)
    \/ \E j \in Jobs : CommitReplace(j)
    \/ \E j \in Jobs : Collect(j)
    \/ Summary

Spec == Init /\ [][Next]_vars

\* The same command with skip_if_up_to_date, then convert_all a second time
\* on the jobs it planned.
InitTwice ==
    InitOf({P(".", <<"d">>)},
           {{"ffmpeg", "ffprobe"}},
           DirFiles, OutFiles,
           {ConvertSettings("mp4", FALSE, od, DefaultVideo) : od \in {None, "out"}},
           {Options(w, Given(4), sc, FALSE, TRUE) :
               w \in {NoInt, Given(1)}, sc \in BOOLEAN},
           MaxFiles)

NextTwice == Next \/ Rerun

SpecTwice == InitTwice /\ [][NextTwice]_vars

\* Planning alone, over more kinds of trees, roots and settings.
InitPlan ==
    InitOf({P(".", <<"d">>), P("d", <<"a", "mov">>)},
           SUBSET {"ffmpeg", "ffprobe"},
           PlanFiles, {},
           {ConvertSettings(to, r, od, DefaultVideo) :
               to \in {"mp4", ".mp4", "mov"}, r \in BOOLEAN,
               od \in {None, "out", "/w/d"}},
           {Options(NoInt, Given(4), TRUE, FALSE, TRUE)},
           MaxFiles + 1)

NextPlan == Plan

SpecPlan == InitPlan /\ [][NextPlan]_vars

\* The command under fair scheduling: the interpreter runs the caller and
\* every pool thread, and every ffprobe and ffmpeg process exits, so some
\* enabled step is always taken in the end.  The directory may hold nothing
\* but a junk file.
FairFiles ==
    DirFiles \cup {Entry(P("d", <<"", "DS_Store">>), File("old", 0, 1, <<>>))}

InitFair ==
    InitOf({P(".", <<"d">>)},
           {{"ffmpeg", "ffprobe"}},
           FairFiles, OutFiles,
           {ConvertSettings("mp4", FALSE, od, DefaultVideo) : od \in {None, "out"}},
           {Options(w, Given(4), TRUE, FALSE, TRUE) : w \in {NoInt, Given(1)}},
           MaxFiles)

SpecFair == InitFair /\ [][Next]_vars /\ WF_vars(Next)

\* The worker counts and processor counts a caller may pass or have: workers
\* None, 0 or positive; os.cpu_count() None, 1 or more.
WorkerOptions ==
    {Options(wc[1], wc[2], FALSE, FALSE, TRUE) :
        wc \in { <<NoInt, NoInt>>, <<NoInt, Given(1)>>, <<NoInt, Given(4)>>,
                 <<Given(0), Given(1)>>, <<Given(0), Given(4)>>,
                 <<Given(1), Given(4)>>, <<Given(2), Given(1)>> }}

\* One more file than workers, so that the pool has a job waiting.
InitWorkers ==
    InitOf({P(".", <<"d">>)},
           {{"ffmpeg", "ffprobe"}},
           DirFiles, {},
           {ConvertSettings("mp4", FALSE, None, DefaultVideo)},
           WorkerOptions,
           MaxFiles + 1)

SpecWorkers == InitWorkers /\ [][Next]_vars

\* No `convert` command is running: the state around a helper that is
\* called on its own.
Idle ==
    /\ bins = {"ffmpeg", "ffprobe"}
    /\ root = P(".", <<"d">>)
    /\ listing = <<>>
    /\ settings = ConvertSettings("mp4", FALSE, None, DefaultVideo)
    /\ opts = Options(NoInt, Given(4), TRUE, FALSE, TRUE)
    /\ fs = <<>> /\ dirs = {"/w", "/w/d"}
    /\ now = 2
    /\ jobs = <<>>
    /\ mpc = "idle"
    /\ pc = <<>> /\ state = <<>> /\ result = <<>> /\ collected = <<>>
    /\ cmd = <<>> /\ rc = <<>> /\ pre = <<>> /\ wrote = <<>> /\ calls = <<>>
    /\ successes = 0
    /\ summary = <<>>
    /\ raised = None
    /\ past = <<>>

\* Containers, with and without the dot and in upper case, and the codec
\* names _first_codec may return (None: no such stream, or the probe failed).
Containers ==
    {"mp4", ".mp4", "MP4", ".MP4", "mov", "webm", ".webm", "mkv", ".mkv",
     "MKV", "m4a", "mp3", "ogg", "flac", "wav", "avi", "part"}

VideoCodecs == {None, "h264", "H264", "hevc", "vp8", "vp9", "av1", "prores"}

AudioCodecs ==
    {None, "aac", "AAC", "alac", "mp3", "opus", "vorbis", "flac", "pcm_s16le",
     "pcm_u8"}

InitHeuristic ==
    /\ Idle
    /\ arg \in {[fn |-> "_container_allows_codecs", container |-> c,
                  vcodec |-> v, acodec |-> a] :
                    c \in Containers, v \in VideoCodecs, a \in AudioCodecs}
    /\ ret = <<>>

\* The call _container_allows_codecs(container, vcodec, acodec) returns.
CallHeuristic ==
    /\ arg.fn = "_container_allows_codecs" /\ ret = <<>>
    /\ ret' = <<_container_allows_codecs(arg.container, arg.vcodec, arg.acodec)>>
    /\ UNCHANGED <<bins, root, listing, settings, opts, fs, dirs, now, jobs,
                   mpc, pc, state, result, collected, successes, summary,
                   raised, cmd, rc, pre, wrote, calls, past, arg>>

SpecHeuristic == InitHeuristic /\ [][CallHeuristic]_vars

\* Destination extensions, in either case, known to _build_args or not;
\* "part" is the extension of the temp path _run_one passes.
TargetExts ==
    {"mp4", "MP4", "mov", "mkv", "webm", "mp3", "m4a", "ogg", "flac", "wav",
     "avi", "part"}

AACOnly == <<[codec_type |-> "audio", codec_name |-> "aac"]>>

\* What ffprobe may report for the source: nothing (the probe failed), or
\* the streams of the file.
ProbedStreams == {<<>>, H264AAC, VP9OPUS, AACOnly}

InitBuildArgs ==
    /\ Idle
    /\ arg \in {[fn |-> "_build_args",
                  job |-> ConvertJob(P("d", <<"a", "avi">>), P("out", <<"a", e>>),
                                     ConvertSettings(e, FALSE, "out", DefaultVideo)),
                  smart_copy |-> sc, streams |-> st] :
                    e \in TargetExts, sc \in BOOLEAN, st \in ProbedStreams}
    /\ ret = <<>>

\* The call _build_args(job, smart_copy=smart_copy) returns.
CallBuildArgs ==
    /\ arg.fn = "_build_args" /\ ret = <<>>
    /\ ret' = <<_build_args(arg.job, arg.smart_copy, arg.streams)>>
    /\ UNCHANGED <<bins, root, listing, settings, opts, fs, dirs, now, jobs,
                   mpc, pc, state, result, collected, successes, summary,
                   raised, cmd, rc, pre, wrote, calls, past, arg>>

SpecBuildArgs == InitBuildArgs /\ [][CallBuildArgs]_vars

(***************************************************************************)
(* Properties                                                              *)
(***************************************************************************)
\* Job j's _run_one call returns in this step.
Finishes(j) == pc[j] # "returned" /\ pc'[j] = "returned"

VideoExts == {"mp4", "mkv", "mov", "webm"}
AudioExts == {"mp3", "aac", "flac", "m4a", "wav", "ogg"}

\* The literals ss occur in args, adjacent and in this order.
HasLits(args, ss) ==
    \E i \in 0..Len(args) :
        /\ i + Len(ss) <= Len(args)
        /\ \A k \in DOMAIN ss : args[i + k] = Lit(ss[k])

\* C1: a job whose encoder exits non-zero ends with its destination as it
\* was when the job started, with no file at its temp path, and is reported
\* as failed.
C1_NoPartialOutput ==
    [][\A j \in Jobs :
          (Finishes(j) /\ pc[j] = "exited" /\ rc[j] # 0) =>
              /\ stat(fs', jobs[j].dst) = pre'[j]
              /\ ~exists(fs', tmp_out(jobs[j]))
              /\ state'[j] = "FAILED" /\ result'[j] = "fail"]_vars

\* C2: a job that ends as failed, for whatever reason, leaves a destination
\* that existed when it started in place with its prior content.
C2_FailedKeepsDestination ==
    [][\A j \in Jobs :
          (Finishes(j) /\ state'[j] = "FAILED" /\ pre'[j] # Absent) =>
              stat(fs', jobs[j].dst) = pre'[j]]_vars

\* C3: a job that ends committed leaves at its destination exactly what its
\* encoder wrote to the temp path, and no destination ever holds a
\* zero-length or partial encoder output.
C3_AtomicReplace ==
    /\ [][\A j \in Jobs :
            (Finishes(j) /\ state'[j] = "COMMITTED") =>
                /\ exists(fs', jobs[j].dst)
                /\ stat(fs', jobs[j].dst) = wrote'[j]]_vars
    /\ [](\A j \in Jobs : stat(fs, jobs[j].dst).data.kind # "partial")

\* C4: a job that commits over a destination that existed when it started
\* never leaves that destination missing between the encoder's exit and
\* its own end.
C4_DestinationNeverMissing ==
    [][\A j \in Jobs :
          (Finishes(j) /\ state'[j] = "COMMITTED" /\ pre[j] # Absent) =>
              exists(fs, jobs[j].dst)]_vars

\* C5: the destinations, and so the temp paths, of the jobs of one plan are
\* pairwise distinct.
C5_DistinctDestinations ==
    \A i, j \in Jobs :
        i # j => /\ resolve(jobs[i].dst) # resolve(jobs[j].dst)
                 /\ resolve(tmp_out(jobs[i])) # resolve(tmp_out(jobs[j]))

\* The naive destination: the source's stem and the target extension, in
\* the output directory or else beside the source.
NaiveDst(src, s) ==
    P(IF s.output_dir # None THEN s.output_dir ELSE src.dir,
      stem(src) \o <<lstrip_dot(s.to)>>)

\* C6: a planned destination never resolves to its source, and when the
\* naive destination is the source the destination carries a .conv infix
\* before the extension.
C6_NoSelfOverwrite ==
    \A j \in Jobs :
        /\ resolve(jobs[j].dst) # resolve(jobs[j].src)
        /\ resolve(NaiveDst(jobs[j].src, jobs[j].settings)) = resolve(jobs[j].src)
              => jobs[j].dst.name =
                    stem(jobs[j].src) \o <<"conv", lstrip_dot(jobs[j].settings.to)>>

\* The destination extension of job j and whether the heuristic allows a
\* stream copy of what was probed into it.
DstExt(j) == to_ext_of(jobs[j].dst)

Compatible(j) ==
    _container_allows_codecs(DstExt(j), _first_codec(cmd[j].probed, "video"),
                             _first_codec(cmd[j].probed, "audio"))

IsRemux(args) ==
    /\ HasLits(args, <<"-map", "0", "-c", "copy", "-movflags", "+faststart">>)
    /\ \A x \in {"-c:v", "-c:a", "-preset", "-crf", "-vn"} : Lit(x) \notin Range(args)

IsGenericCopy(args) ==
    /\ HasLits(args, <<"-map", "0", "-c", "copy">>)
    /\ Lit("-movflags") \notin Range(args)

\* C7: the command run for a job follows the job's destination extension,
\* with the temp path as its output: a transcode with the configured codecs
\* for a video target that is not smart-copied, an audio-only command for
\* an audio target, the generic stream copy only for an unknown target.
C7_CommandFollowsTarget ==
    \A j \in Jobs :
        cmd[j].args # <<>> =>
            LET args == cmd[j].args
                v == jobs[j].settings.video
            IN  /\ args[Len(args)] = PathArg(tmp_out(jobs[j]))
                /\ (DstExt(j) \in VideoExts /\ ~(opts.smart_copy /\ Compatible(j)))
                      => /\ HasLits(args, <<"-preset", v.preset, "-crf", str(v.crf)>>)
                         /\ Lit("-c:v") \in Range(args)
                         /\ Lit("-c:a") \in Range(args)
                /\ (DstExt(j) \in AudioExts /\ ~(opts.smart_copy /\ Compatible(j)))
                      => HasLits(args, <<"-vn", "-map", "0:a:0?">>)
                /\ IsGenericCopy(args) => DstExt(j) \notin VideoExts \cup AudioExts

\* C8: with smart_copy the command built for a job is the remux command
\* (all streams copied, faststart, no encoder flags) exactly when the
\* heuristic holds for the destination extension and the probed codecs.
C8_SmartCopyRemux ==
    \A j \in Jobs :
        (cmd[j].args # <<>> /\ opts.smart_copy) =>
            (IsRemux(cmd[j].args) <=> Compatible(j))

\* C10: no exception leaves convert_all because of a job: a job that exited
\* non-zero or raised is recorded as failed, and when convert_all is done
\* every job has been processed and counted.
C10_FailuresAreContained ==
    /\ raised # None => (mpc = "raised" /\ jobs = <<>>)
    /\ \A j \in Jobs :
          pc[j] = "returned" =>
              /\ result[j] \in {"ok", "fail"}
              /\ result[j] = "fail" <=> state[j] = "FAILED"
    /\ mpc = "done" =>
          \A j \in Jobs :
              /\ collected[j]
              /\ state[j] \in {"SKIPPED", "DRY_RUN_LOGGED", "COMMITTED", "FAILED"}

\* Sequential path: the first job failed by an exception at the rename, the
\* second was still run and committed, and convert_all is done.
C10_Witness ==
    /\ mpc = "done" /\ max_workers(opts) = 1
    /\ Len(jobs) >= 2
    /\ state[1] = "FAILED" /\ rc[1] = 0
    /\ state[2] = "COMMITTED"

\* The second convert_all call on the jobs is under way or done.
InSecondRun == Len(past) = 2 \/ (Len(past) = 1 /\ mpc # "done")

\* C9: when the first run with skip_if_up_to_date committed every job, the
\* second run skips every job, invokes neither the encoder nor the prober,
\* and reports the same success count.
C9_SkipIdempotence ==
    (/\ InSecondRun
     /\ opts.skip_if_up_to_date
     /\ \A j \in Jobs : past[1][j] = "COMMITTED") =>
        /\ \A j \in Jobs :
              /\ state[j] \in {"PENDING", "SKIPPED"}
              /\ calls[j] = [enc |-> 0, probe |-> 0]
        /\ Len(past) = 2 => summary[2].n = summary[1].n

\* The outcomes that count as a success.
Succeeded == {"SKIPPED", "DRY_RUN_LOGGED", "COMMITTED"}

\* C11: the summary convert_all logs reports as successes the number of jobs
\* that ended skipped, dry-run-logged or committed, and as total the number
\* of jobs, on the sequential and on the pooled path and whatever the order
\* in which the workers complete; with dry_run every job is a success.
C11_SuccessCount ==
    (mpc = "done" /\ summary # <<>>) =>
        LET s == summary[Len(summary)] IN
        /\ s.n = Cardinality({j \in Jobs : state[j] \in Succeeded})
        /\ s.m = Len(jobs)
        /\ opts.dry_run => s.n = Len(jobs)

\* Pooled path: the first job failed, the second committed, one of two is
\* reported.
C11_Witness ==
    /\ mpc = "done" /\ max_workers(opts) = 2
    /\ state = <<"FAILED", "COMMITTED">>
    /\ summary = <<[n |-> 1, m |-> 2]>>

\* The jobs whose encoder process is running.
InFlight == {j \in Jobs : pc[j] = "encoding"}

Terminal == {"SKIPPED", "DRY_RUN_LOGGED", "COMMITTED", "FAILED"}

Moves ==
    {<<"PENDING", "SKIPPED">>, <<"PENDING", "DRY_RUN_LOGGED">>,
     <<"PENDING", "RUNNING">>, <<"RUNNING", "COMMITTED">>,
     <<"RUNNING", "FAILED">>}

Starts(j) == pc[j] = "pending" /\ pc'[j] # "pending"

\* C14: with skip_if_up_to_date a job is skipped exactly when, as it starts,
\* its destination exists, is not empty and is not older than its (existing)
\* source, and without skip_if_up_to_date never; a skipped job returns
\* success, and no probe, no encoder call, no command and no change of any
\* file comes with it, with dry_run as well as without.
C14_SkipCheck ==
    [][\A j \in Jobs : Starts(j) =>
          /\ state'[j] = "SKIPPED" <=>
                 /\ opts.skip_if_up_to_date
                 /\ resolve(jobs[j].dst) \in DOMAIN fs
                 /\ fs[resolve(jobs[j].dst)].data.kind # "empty"
                 /\ resolve(jobs[j].src) \in DOMAIN fs
                 /\ fs[resolve(jobs[j].dst)].mtime >= fs[resolve(jobs[j].src)].mtime
          /\ state'[j] = "SKIPPED" =>
                 /\ result'[j] = "ok"
                 /\ calls'[j] = [enc |-> 0, probe |-> 0]
                 /\ cmd'[j] = NoCommand
                 /\ fs' = fs]_vars

\* With dry_run and smart_copy a job was skipped: no probe, no command.
C14_Witness ==
    /\ opts.dry_run /\ opts.smart_copy /\ opts.skip_if_up_to_date
    /\ \E j \in Jobs : state[j] = "SKIPPED" /\ cmd[j] = NoCommand

\* C15: with dry_run no step of the run changes the filesystem, no encoder
\* is invoked, and a job that is not skipped ends dry-run-logged as a
\* success with its command built.
C15_DryRunFrame ==
    [][opts.dry_run =>
          /\ fs' = fs
          /\ \A j \in Jobs :
                /\ calls'[j].enc = 0
                /\ (Starts(j) /\ state'[j] # "SKIPPED") =>
                       /\ state'[j] = "DRY_RUN_LOGGED"
                       /\ result'[j] = "ok"
                       /\ cmd'[j].args # <<>>]_vars

\* The worker count convert_all arrives at is 1: workers=1, or no workers
\* given (None or 0) on a machine whose processor count is unknown or below 4.
OneWorker ==
    \/ opts.workers = Given(1)
    \/ /\ opts.workers \in {NoInt, Given(0)}
       /\ opts.cpu_count \in {NoInt, Given(0), Given(1), Given(2), Given(3)}

\* C16: with an effective worker count of 1 the jobs run one at a time in
\* submission order: a job has not begun (no skip check, probe or encoder
\* call) unless every job before it has returned in a terminal state and
\* been counted.
C16_Sequential ==
    OneWorker =>
        \A i, j \in Jobs :
            (i < j /\ pc[j] # "pending") =>
                /\ pc[i] = "returned"
                /\ state[i] \in Terminal
                /\ collected[i]

\* Sequential path: the second job's encoder runs, the first job has ended.
C16_Witness ==
    /\ OneWorker /\ Len(jobs) = 2
    /\ pc[2] = "encoding"
    /\ state[1] \in {"COMMITTED", "FAILED"}

\* plan_conversions has returned (it did not raise).
Planned == mpc # "plan" /\ raised \notin {"RuntimeError", "FileNotFoundError"}

\* C17: whenever plan_conversions returns, it returns at least one job; with
\* both tools on PATH, a root with no file under it, or with none but hidden
\* and junk files, makes it raise the no-input-files error.
C17_PlanNeverEmpty ==
    /\ Planned => Len(jobs) >= 1
    /\ (mpc # "plan" /\ ~_require_ffmpeg(bins)
          /\ \A i \in DOMAIN _iter_files(fs, listing, root, settings.recursive) :
                 is_junk(_iter_files(fs, listing, root, settings.recursive)[i]))
        => raised = "FileNotFoundError"

\* The regular files under a directory root that plan_conversions is to
\* convert: direct children, or all descendants when recursive, whose name
\* neither starts with a dot nor is thumbs.db or desktop.ini in any case.
Wanted ==
    {k \in DOMAIN fs :
        /\ IF settings.recursive
           THEN k.dir \in {"/w/d", "/w/d/s"}
           ELSE k.dir = "/w/d"
        /\ k.name[1] # ""
        /\ k.name \notin {<<"thumbs", "db">>, <<"Thumbs", "db">>,
                          <<"THUMBS", "DB">>, <<"desktop", "ini">>,
                          <<"Desktop", "ini">>, <<"DESKTOP", "INI">>}}

\* C18: for the directory root d, plan_conversions returns one job for each
\* wanted file and no other job, so no hidden or junk file, no directory and
\* no file outside the wanted depth is a job's source.
C18_OneJobPerFile ==
    (Planned /\ root = P(".", <<"d">>)) =>
        /\ {resolve(jobs[j].src) : j \in Jobs} = Wanted
        /\ Len(jobs) = Cardinality(Wanted)

\* Not recursive: a.mov is planned, the junk file and the subdirectory
\* beside it are not.
C18_Witness ==
    /\ Planned /\ root = P(".", <<"d">>) /\ ~settings.recursive
    /\ Len(jobs) = 1 /\ jobs[1].src = P("d", <<"a", "mov">>)
    /\ Len(listing) = 3
    /\ P("d", <<"", "DS_Store">>) \in Range(listing)
    /\ P("d", <<"s">>) \in Range(listing)

\* C19: a planned job whose naive destination is not its source has that
\* naive destination: the source's name with only its last extension
\* replaced by the target format (leading dot dropped), in output_dir when
\* given and else beside the source.
C19_DestinationNaming ==
    \A j \in Jobs :
        resolve(NaiveDst(jobs[j].src, jobs[j].settings)) # resolve(jobs[j].src)
            => jobs[j].dst = NaiveDst(jobs[j].src, jobs[j].settings)

\* The audio-only containers and the audio codecs that match each.
AudioOnly == {"m4a", "mp3", "ogg", "flac", "wav"}

AudioMatches(c, a) ==
    \/ c = "m4a" /\ a \in {"aac", "alac"}
    \/ c = "mp3" /\ a = "mp3"
    \/ c = "ogg" /\ a \in {"vorbis", "opus"}
    \/ c = "flac" /\ a = "flac"
    \/ c = "wav" /\ a \in {"pcm_s16le", "pcm_s24le", "pcm_u8"}

\* C20: for an audio-only container _container_allows_codecs returns true
\* exactly when the video codec is None and the audio codec matches the
\* container.
C20_AudioOnlyContainers ==
    (ret # <<>> /\ arg.fn = "_container_allows_codecs"
        /\ arg.container \in AudioOnly) =>
        (ret[1] <=> (arg.vcodec = None /\ AudioMatches(arg.container, arg.acodec)))

\* C21: when the probe failed, so that both codecs are None, the heuristic
\* returns false whatever the container.
C21_FailedProbeNeverCopies ==
    (ret # <<>> /\ arg.fn = "_container_allows_codecs"
        /\ arg.vcodec = None /\ arg.acodec = None) => ~ret[1]

\* A container or codec name in lower case and without a leading dot, by
\* the table of the names the calls are made with.
Canon(s) ==
    CASE s \in {"mp4", ".mp4", "MP4", ".MP4"} -> "mp4"
      [] s \in {"webm", ".webm"} -> "webm"
      [] s \in {"mkv", ".mkv", "MKV"} -> "mkv"
      [] s \in {"h264", "H264"} -> "h264"
      [] s \in {"aac", "AAC"} -> "aac"
      [] OTHER -> s

KnownContainers ==
    {"mp4", "mov", "webm", "mkv", "m4a", "mp3", "ogg", "flac", "wav"}

\* C22: _container_allows_codecs returns a boolean for every input and
\* follows the table, whatever the letter case of its arguments and with or
\* without a dot before the container: mp4 takes h264/hevc/av1 with aac/mp3
\* and not vp9 with opus, webm takes vp8/vp9/av1 with vorbis/opus, mkv takes
\* everything, an unknown container nothing.
C22_CompatibilityTable ==
    (ret # <<>> /\ arg.fn = "_container_allows_codecs") =>
        LET c == Canon(arg.container)
            v == Canon(arg.vcodec)
            a == Canon(arg.acodec)
        IN  /\ ret[1] \in BOOLEAN
            /\ (c = "mp4" /\ v \in {"h264", "hevc", "av1"} /\ a \in {"aac", "mp3"})
                   => ret[1]
            /\ (c = "mp4" /\ v = "vp9" /\ a = "opus") => ~ret[1]
            /\ (c = "webm" /\ v \in {"vp8", "vp9", "av1"}
                   /\ a \in {"vorbis", "opus"}) => ret[1]
            /\ c = "mkv" => ret[1]
            /\ c \notin KnownContainers => ~ret[1]

\* Upper case and a dot: ".MP4" with "H264" and "AAC" is allowed.
C22_Witness ==
    /\ arg = [fn |-> "_container_allows_codecs", container |-> ".MP4",
              vcodec |-> "H264", acodec |-> "AAC"]
    /\ ret = <<TRUE>>

\* C23: when a job of convert_all starts (its skip check, probe or encoder
\* call), the parent directory of every job's destination already exists.
C23_DirectoriesFirst ==
    [][\A j \in Jobs : Starts(j) =>
          \A i \in Jobs : resolve_dir(jobs[i].dst.dir) \in dirs]_vars

\* convert_all has created the missing output directory and no job has
\* started yet.
C23_Witness ==
    /\ mpc \in {"seq", "pool"} /\ Len(jobs) = 2
    /\ \A j \in Jobs : pc[j] = "pending"
    /\ settings.output_dir = "out" /\ "/w/out" \in dirs
    /\ \A k \in DOMAIN fs : k.dir # "/w/out"

\* C24: plan_conversions raises the missing-dependency error exactly when
\* ffmpeg or ffprobe is not on PATH, whatever lies under the root (nothing,
\* junk only, or files), before it discovers any file, and then returns no
\* jobs; the no-input-files error is raised only with both tools present;
\* every planning call runs the capability check exactly once, as its first
\* step, however many files there are.
C24_MissingDependencyFirst ==
    mpc # "plan" =>
        /\ raised = "RuntimeError" <=> ("ffmpeg" \notin bins \/ "ffprobe" \notin bins)
        /\ raised = "RuntimeError" =>
              jobs = <<>> /\ mpc = "raised" /\ ret[1] = <<"_require_ffmpeg">>
        /\ raised = "FileNotFoundError" => bins = {"ffmpeg", "ffprobe"}
        /\ arg.fn = "plan_conversions"
        /\ Len(SelectSeq(ret[1], LAMBDA c : c = "_require_ffmpeg")) = 1
        /\ Head(ret[1]) = "_require_ffmpeg"

\* ffprobe is missing and the directory is empty: the missing-dependency
\* error, not the no-input-files error.
C24_Witness ==
    /\ mpc = "raised" /\ raised = "RuntimeError"
    /\ bins = {"ffmpeg"} /\ listing = <<>>

FatalPlanningErrors == {"RuntimeError", "FileNotFoundError"}

\* C25: the planning step creates, changes and deletes no file and no
\* directory, whether it returns jobs or raises; when it returns, every job
\* is still pending and no prober or encoder has run; when it raises the
\* missing-dependency or the no-input-files error there is no job, and
\* nothing runs afterwards.
C25_PlanningHasNoSideEffects ==
    [][/\ mpc = "plan" =>
             /\ fs' = fs /\ dirs' = dirs
             /\ raised' \in FatalPlanningErrors =>
                   jobs' = <<>> /\ mpc' = "raised" /\ DOMAIN pc' = {}
             /\ raised' \notin FatalPlanningErrors =>
                   \A j \in DOMAIN jobs' :
                       /\ pc'[j] = "pending"
                       /\ calls'[j] = [enc |-> 0, probe |-> 0]
                       /\ wrote'[j] = Absent
       /\ raised \in FatalPlanningErrors => UNCHANGED vars]_vars

\* Planning has raised the no-input-files error although the tree under the
\* root is not empty: the files it leaves untouched exist.
C25_Witness ==
    /\ mpc = "raised" /\ raised = "FileNotFoundError"
    /\ listing # <<>> /\ DOMAIN fs # {}

\* The position of a path of the test tree in sorted order (Path.__lt__
\* compares the parts as strings): .DS_Store < Thumbs.db < a.avi < a.b.mp4
\* < a.mov < a.mp4 < a.mp4.part < s/a.mov.
SortKey(p) ==
    IF p.dir # "d" THEN 8
    ELSE CASE p.name = <<"", "DS_Store">> -> 1
           [] p.name = <<"Thumbs", "db">> -> 2
           [] p.name = <<"a", "avi">> -> 3
           [] p.name = <<"a", "b", "mp4">> -> 4
           [] p.name = <<"a", "mov">> -> 5
           [] p.name = <<"a", "mp4">> -> 6
           [] p.name = <<"a", "mp4", "part">> -> 7
           [] OTHER -> 0

\* The places of the listing that became jobs, in listing order.
RECURSIVE KeptOf(_)
KeptOf(ls) ==
    IF ls = <<>> THEN <<>>
    ELSE IF is_file(fs, Head(ls)) /\ ~is_junk(Head(ls))
              /\ (settings.recursive \/ Head(ls).dir = as_dir(root))
         THEN <<Head(ls)>> \o KeptOf(Tail(ls))
         ELSE KeptOf(Tail(ls))

\* C26: the jobs plan_conversions returns for a directory are the files
\* that are not junk, in the order discovery listed them, and that order is
\* the sorted order of the source paths.
C26_SortedDiscoveryOrder ==
    (mpc = "call" /\ ~is_file(fs, root)) =>
        /\ [j \in Jobs |-> jobs[j].src] = KeptOf(listing)
        /\ \A i, j \in Jobs : i < j => SortKey(jobs[i].src) < SortKey(jobs[j].src)

\* C27: under fair scheduling, with every prober and encoder process
\* exiting, a call of convert_all leads to the state where it has returned,
\* every job it was passed is terminal and the `Completed N/M` summary has
\* been logged exactly once; the summary is never logged twice, and never
\* while a job is not terminal.
C27_EveryJobTerminates ==
    /\ (mpc = "call") ~>
          (mpc = "done" /\ Len(summary) = 1 /\ \A j \in Jobs : state[j] \in Terminal)
    /\ [](Len(summary) <= 1)
    /\ [](summary # <<>> => \A j \in Jobs : state[j] \in Terminal)

\* C28: within one convert_all call a job that has been handed to _run_one
\* is never handed out again, ffmpeg is invoked at most once for it, and once
\* it is terminal (failed included) its state, its result and its
\* invocation counts never change; when the summary is logged every job has
\* been through _run_one and its result has been collected, once.
C28_ProcessedOnce ==
    [][\A j \in Jobs :
          /\ pc[j] # "pending" => pc'[j] # "pending"
          /\ calls'[j].enc <= 1
          /\ state[j] \in Terminal =>
                /\ state'[j] = state[j] /\ result'[j] = result[j]
                /\ calls'[j] = calls[j] /\ pc'[j] = "returned"
          /\ collected[j] => collected'[j]
          /\ mpc' = "done" => pc'[j] = "returned" /\ collected'[j]]_vars

\* convert_all has returned; the first job failed after one ffmpeg run and a
\* later job ran after it.
C28_Witness ==
    /\ mpc = "done" /\ Len(jobs) = 2
    /\ state[1] = "FAILED" /\ calls[1].enc = 1
    /\ calls[2].enc = 1

\* C29: in every job list plan_conversions returns, no job's destination
\* and no job's temp path (the destination plus .part) is the source path
\* of a job of the list, its own or another's.
C29_SourcesNeverTargets ==
    mpc = "call" =>
        \A i, j \in Jobs :
            /\ resolve(jobs[i].dst) # resolve(jobs[j].src)
            /\ resolve(tmp_out(jobs[i])) # resolve(jobs[j].src)

\* C30: every command _build_args returns, on the remux path as on the
\* transcode path, holds `-movflags +faststart` exactly when the target
\* extension is mp4 or mov.
C30_FaststartIffMp4Mov ==
    (ret # <<>> /\ arg.fn = "_build_args") =>
        (HasLits(ret[1], <<"-movflags", "+faststart">>)
            <=> to_ext_of(arg.job.dst) \in {"mp4", "mov"})

====
